---- MODULE Spec2Model ----
(***************************************************************************)
(* A model of src/analyzer.py: the sentence splitter, the phrase and       *)
(* pattern span matchers, the per-sentence feature extraction, scoring and *)
(* classification (Analyzer.analyze_sentence) and the document aggregation *)
(* (Analyzer.analyze_text).                                                *)
(*                                                                         *)
(* A Python str is a sequence of characters; a character is a one-letter   *)
(* TLA+ string, except the two code points that have no ASCII spelling.    *)
(* Offsets are Python's (0-based, end exclusive).                          *)
(***************************************************************************)
EXTENDS Integers, Sequences, FiniteSets, TLC

VARIABLES
    text_l, phrases, original, p_i, start, idx, spans, pc,
    s, lex, rx, wt, sc, result,
    wt2, result2,
    text, parts, out

scanVars == <<text_l, phrases, original, p_i, start, idx, spans>>
sentVars == <<s, lex, rx, wt, sc, result>>
pairVars == <<wt2, result2>>
textVars == <<text, parts, out>>
vars == <<pc, scanVars, sentVars, pairVars, textVars>>

\* The value of a variable that holds nothing: the frame is not in use, or the
\* call has not returned yet (pc tells).
None == "None"

(***************************************************************************)
(* Characters and str methods                                              *)
(***************************************************************************)

\* U+0130 LATIN CAPITAL LETTER I WITH DOT ABOVE and U+0307 COMBINING DOT ABOVE.
DotI == "U+0130"
CombDot == "U+0307"

UpperToLower ==
    ("A" :> "a") @@ ("B" :> "b") @@ ("P" :> "p") @@ ("U" :> "u")

\* str.lower() of one character.  Every character maps to one character,
\* except U+0130, whose lowercase is the two code points "i" U+0307.
LowerChar(c) ==
    IF c \in DOMAIN UpperToLower THEN <<UpperToLower[c]>>
    ELSE IF c = DotI THEN <<"i", CombDot>>
    ELSE <<c>>

RECURSIVE Lower(_)
Lower(str) ==
    IF str = <<>> THEN <<>> ELSE LowerChar(Head(str)) \o Lower(Tail(str))

Min(a, b) == IF a <= b THEN a ELSE b
Max(a, b) == IF a >= b THEN a ELSE b

\* str[a:b] for 0 <= a, 0 <= b: Python clamps both ends to len(str).
Slice(str, a, b) == SubSeq(str, a + 1, Min(b, Len(str)))

\* str.find(sub, from): the lowest index >= from where sub occurs, or -1.
\* The empty string occurs at every index up to and including len(str).
OccursAt(str, sub, i) ==
    /\ i + Len(sub) <= Len(str)
    /\ SubSeq(str, i + 1, i + Len(sub)) = sub

Find(str, sub, from) ==
    LET hits == {i \in from..Len(str) : OccursAt(str, sub, i)}
    IN  IF hits = {} THEN -1 ELSE CHOOSE i \in hits : \A j \in hits : i <= j

\* Whitespace: str.strip() and the pattern class \s agree on these (and on
\* the vertical tab and the other Unicode spaces, which the inputs leave out).
IsSpace(c) == c \in {" ", "\t", "\n", "\r", "\f"}

\* str.strip()
RECURSIVE LStrip(_)
LStrip(str) ==
    IF str # <<>> /\ IsSpace(Head(str)) THEN LStrip(Tail(str)) ELSE str

RECURSIVE RStrip(_)
RStrip(str) ==
    IF str # <<>> /\ IsSpace(str[Len(str)])
    THEN RStrip(SubSeq(str, 1, Len(str) - 1)) ELSE str

Strip(str) == RStrip(LStrip(str))

\* All sequences over S of length at most n.
SeqsUpTo(S, n) == UNION {[1..k -> S] : k \in 0..n}

\* The concatenation of a sequence of sequences.
RECURSIVE Concat(_)
Concat(ss) == IF ss = <<>> THEN <<>> ELSE Head(ss) \o Concat(Tail(ss))

RECURSIVE SumSeq(_)
SumSeq(xs) == IF xs = <<>> THEN 0 ELSE Head(xs) + SumSeq(Tail(xs))

(***************************************************************************)
(* find_phrase_spans, statement by statement                                *)
(***************************************************************************)

MaxLen == 3
MaxPhrases == 2

\* The list the loop appends to is unbounded in the code.  The model keeps its
\* first MaxSpans entries, more than any scan that leaves its while loop
\* produces from these inputs (a phrase of one character or more matches at
\* most len(text_l) times, and text_l is at most twice as long as original).
MaxSpans == MaxPhrases * 2 * MaxLen + 1

ScanAlphabet == {"a", "b", "A", DotI}
PhraseSet == {<<>>, <<"a">>, <<"a", "a">>, <<"B">>, <<"a", "b">>}

\* The dict appended at line 28: the offsets are those found in text_l, the
\* text is cut from original at the same offsets.
Span(a, b, orig) == [start |-> a, end |-> b, text |-> Slice(orig, a, b)]

\* A scan that resumes one character after the match's start.
ResumeAtNextChar(at, sub) == at + 1

\* start = idx + len(p_l) (line 29)
ResumeAt(at, sub) == at + Len(sub)

\* The phrase the for loop is at, lowercased (line 22).
p_l == Lower(phrases[p_i])

\* find_phrase_spans(s.lower(), phrases, s) is entered (lines 19-20).
InitScanFrame ==
    /\ original \in SeqsUpTo(ScanAlphabet, MaxLen)
    /\ phrases \in SeqsUpTo(PhraseSet, MaxPhrases)
    /\ text_l = Lower(original)
    /\ p_i = 0
    /\ start = 0
    /\ idx = -1
    /\ spans = <<>>
    /\ pc = "for"

\* for p in phrases: p_l = p.lower(); start = 0 (lines 21-23)
ForNext ==
    /\ pc = "for"
    /\ p_i < Len(phrases)
    /\ p_i' = p_i + 1
    /\ start' = 0
    /\ pc' = "while"
    /\ UNCHANGED <<text_l, phrases, original, idx, spans>>

\* The list is exhausted: return spans (line 30).
ForDone ==
    /\ pc = "for"
    /\ p_i = Len(phrases)
    /\ pc' = "return"
    /\ UNCHANGED <<text_l, phrases, original, p_i, start, idx, spans>>

\* idx = text_l.find(p_l, start) (line 25)
WhileFind ==
    /\ pc = "while"
    /\ idx' = Find(text_l, p_l, start)
    /\ pc' = "if"
    /\ UNCHANGED <<text_l, phrases, original, p_i, start, spans>>

\* if idx == -1: break (lines 26-27)
IfBreak ==
    /\ pc = "if"
    /\ idx = -1
    /\ pc' = "for"
    /\ UNCHANGED <<text_l, phrases, original, p_i, start, spans, idx>>

\* spans.append(...); start = idx + len(p_l) (lines 28-29), and back to the
\* head of the loop.
AppendSpan ==
    /\ pc = "if"
    /\ idx # -1
    /\ spans' = IF Len(spans) < MaxSpans
                THEN Append(spans, Span(idx, idx + Len(p_l), original))
                ELSE spans
    /\ start' = ResumeAt(idx, p_l)
    /\ pc' = "while"
    /\ UNCHANGED <<text_l, phrases, original, p_i, idx>>

IdleScan ==
    /\ text_l = <<>> /\ phrases = <<>> /\ original = <<>>
    /\ p_i = 0 /\ start = 0 /\ idx = -1 /\ spans = <<>>
IdleSent ==
    /\ s = <<>> /\ lex = None /\ rx = None /\ wt = None /\ sc = None
    /\ result = None
IdlePair == wt2 = None /\ result2 = None
IdleText == text = <<>> /\ parts = None /\ out = None

InitScan == InitScanFrame /\ IdleSent /\ IdlePair /\ IdleText

NextScan ==
    \/ ForNext /\ UNCHANGED <<sentVars, pairVars, textVars>>
    \/ ForDone /\ UNCHANGED <<sentVars, pairVars, textVars>>
    \/ WhileFind /\ UNCHANGED <<sentVars, pairVars, textVars>>
    \/ IfBreak /\ UNCHANGED <<sentVars, pairVars, textVars>>
    \/ AppendSpan /\ UNCHANGED <<sentVars, pairVars, textVars>>

\* The interpreter runs the function's next statement as long as there is one.
ScanSpec == InitScan /\ [][NextScan]_vars /\ WF_vars(NextScan)

(***************************************************************************)
(* find_phrase_spans and find_spans_regex as functions of their arguments  *)
(***************************************************************************)

\* The while loop of lines 24-29 for one phrase, from a start offset.  It is
\* defined for a phrase of one character or more; with the empty phrase the
\* loop never leaves (see ScanSpec) and the function has no value.
RECURSIVE ScanPhrase(_, _, _, _)
ScanPhrase(tl, pl, orig, from) ==
    LET at == Find(tl, pl, from)
    IN  IF at = -1 THEN <<>>
        ELSE <<Span(at, at + Len(pl), orig)>>
             \o ScanPhrase(tl, pl, orig, ResumeAt(at, pl))

find_phrase_spans(tl, phs, orig) ==
    Concat([k \in 1..Len(phs) |-> ScanPhrase(tl, Lower(phs[k]), orig, 0)])

\* re.IGNORECASE compares characters by their simple lowercase, one character
\* for one character (U+0130 compares equal to "i").
FoldChar(c) ==
    IF c \in DOMAIN UpperToLower THEN UpperToLower[c]
    ELSE IF c = DotI THEN "i"
    ELSE c

Fold(str) == [i \in 1..Len(str) |-> FoldChar(str[i])]

\* The patterns of regex.json are not part of the sources; a pattern here is a
\* literal: a sequence of characters that matches itself, case-insensitively.
\* pattern.finditer(text): the matches left to right, each search resuming
\* at the end of the previous match (one further after an empty match).
RECURSIVE FindIter(_, _, _)
FindIter(ft, fp, from) ==
    LET at == Find(ft, fp, from)
    IN  IF at = -1 THEN <<>>
        ELSE <<<<at, at + Len(fp)>>>>
             \o FindIter(ft, fp, IF fp = <<>> THEN at + 1 ELSE at + Len(fp))

find_spans_regex(pattern, txt) ==
    LET ms == FindIter(Fold(txt), Fold(pattern), 0)
    IN  [k \in 1..Len(ms) |->
            [start |-> ms[k][1], end |-> ms[k][2],
             text |-> Slice(txt, ms[k][1], ms[k][2])]]

make_flag(flag_type, label, sps) ==
    [type |-> flag_type, label |-> label, spans |-> sps]

(***************************************************************************)
(* Analyzer.analyze_sentence                                               *)
(***************************************************************************)

LowerLetters ==
    {"a", "b", "c", "d", "e", "f", "g", "h", "i", "j", "k", "l", "m", "n",
     "o", "p", "q", "r", "s", "t", "u", "v", "w", "x", "y", "z"}
Digits == {"0", "1", "2", "3", "4", "5", "6", "7", "8", "9"}

\* \w of a str pattern: letters, digits and the underscore.
IsWordChar(c) ==
    c \in LowerLetters \union DOMAIN UpperToLower \union Digits \union {"_", DotI}

\* \b at offset i of str: a word character on exactly one side.
WordBoundary(str, i) ==
    (i > 0 /\ IsWordChar(str[i])) # (i < Len(str) /\ IsWordChar(str[i + 1]))

\* The alternatives of the pattern at line 141.
ProcessWords ==
    { <<"d", "i", "s", "c", "o", "v", "e", "r", "y">>,
      <<"s", "t", "r", "a", "t", "e", "g", "y">>,
      <<"e", "x", "e", "c", "u", "t", "i", "o", "n">>,
      <<"o", "p", "t", "i", "m", "i", "z", "a", "t", "i", "o", "n">>,
      <<"p", "l", "a", "n", "n", "i", "n", "g", " ",
        "p", "r", "o", "c", "e", "s", "s">>,
      <<"c", "u", "s", "t", "o", "m", "e", "r", " ",
        "j", "o", "u", "r", "n", "e", "y">> }

\* re.search(r"\b(discovery|...|customer journey)\b", s_l) finds a match.
ProcessSearch(sl) ==
    \E w \in ProcessWords : \E i \in 0..Len(sl) :
        /\ OccursAt(sl, w, i)
        /\ WordBoundary(sl, i)
        /\ WordBoundary(sl, i + Len(w))

\* dict.get(k, False)
Get(d, k) == IF k \in DOMAIN d THEN d[k] ELSE FALSE

\* A total that is not brought back to zero when it is negative.
ClampUpperOnly(x) == Min(100, x)

\* max(0, min(100, x)) (line 161)
Clamp(x) == Max(0, Min(100, x))

\* The class test of lines 100-104 with the forbids left out.
ClassifyRequiresOnly(table, features) ==
    LET rule == table["values_non_operational"]
    IN  IF /\ "values_non_operational" \in DOMAIN table
           /\ \A k \in 1..Len(rule.requires) : Get(features, rule.requires[k])
        THEN "values_non_operational"
        ELSE "operational_or_mixed"

\* Lines 100-104.  sc.get(...) is None when the table has no such rule; a
\* rule is a dict with both keys, so `if rule` is true of every rule there is.
Classify(table, features) ==
    LET rule == table["values_non_operational"]
    IN  IF /\ "values_non_operational" \in DOMAIN table
           /\ \A k \in 1..Len(rule.requires) : Get(features, rule.requires[k])
           /\ \A j \in 1..Len(rule.forbids) : ~Get(features, rule.forbids[j])
        THEN "values_non_operational"
        ELSE "operational_or_mixed"

\* The conditions of the ten `if` statements of lines 113-149, over the
\* feature map f (and the lowercased sentence, for the one that searches it).
outcome_without_metric(f) == f.outcome_present /\ ~f.metric_present
speed_without_timeframe(f) == f.speed_present /\ ~f.timeframe_present
outcome_without_baseline(f) == f.outcome_present /\ ~f.baseline_present

\* The condition of line 125 with its `not` lost.
outcome_with_scope(f) == f.outcome_present /\ f.scope_present

outcome_without_scope(f) == f.outcome_present /\ ~f.scope_present
proof_implied_no_evidence(f) == f.proof_implied
buzzword_no_mechanism(f) == f.buzzword_present /\ ~f.mechanism_present
outcome_without_mechanism(f) == f.outcome_present /\ ~f.mechanism_present
process_no_levers(sl, f) == ProcessSearch(sl) /\ ~f.mechanism_present
passive_voice(f) == f.passive_present
superlative_unbounded(f) == f.superlative_present /\ ~f.metric_present

\* A rule that adds its weight once for every span it flags.
RulePerMatch(cond, P, flag_type, label, sps) ==
    IF cond THEN [flags |-> <<make_flag(flag_type, label, sps)>>,
                  penalty |-> P[flag_type] * Len(sps)]
    ELSE [flags |-> <<>>, penalty |-> 0]

\* A rule whose weight is added outside its `if`.
RuleAlwaysWeighs(cond, P, flag_type, label, sps) ==
    IF cond THEN [flags |-> <<make_flag(flag_type, label, sps)>>,
                  penalty |-> P[flag_type]]
    ELSE [flags |-> <<>>, penalty |-> P[flag_type]]

\* One `if` of lines 113-151: when its condition holds it adds the rule's
\* weight to penalties and appends one flag.
Rule(cond, P, flag_type, label, sps) ==
    IF cond THEN [flags |-> <<make_flag(flag_type, label, sps)>>,
                  penalty |-> P[flag_type]]
    ELSE [flags |-> <<>>, penalty |-> 0]

\* The phrase spans of lines 65-72, by lexicon.
PhraseSpans(lx, s_l, snt) ==
    [outcome |-> find_phrase_spans(s_l, lx.outcome_verbs, snt),
     speed |-> find_phrase_spans(s_l, lx.speed_words, snt),
     hedge |-> find_phrase_spans(s_l, lx.hedges, snt),
     super |-> find_phrase_spans(s_l, lx.superlatives, snt),
     proof |-> find_phrase_spans(s_l, lx.proof_theater, snt),
     buzz |-> find_phrase_spans(s_l, lx.buzzwords, snt),
     mech |-> find_phrase_spans(s_l, lx.mechanism_tokens, snt),
     values |-> find_phrase_spans(s_l, lx.values_language, snt)]

\* The regex spans of lines 75-79, by pattern.
RegexSpans(px, snt) ==
    [metric |-> find_spans_regex(px.number_unit, snt),
     timeframe |-> find_spans_regex(px.timeframe, snt),
     baseline |-> find_spans_regex(px.baseline, snt),
     scope |-> find_spans_regex(px.scope, snt),
     passive |-> find_spans_regex(px.passive, snt)]

\* The feature map of lines 82-97: bool() of a list is true of a list that
\* is not empty.
Features(ps, rs) ==
    [outcome_present |-> ps.outcome # <<>>,
     speed_present |-> ps.speed # <<>>,
     hedge_present |-> ps.hedge # <<>>,
     superlative_present |-> ps.super # <<>>,
     proof_implied |-> ps.proof # <<>>,
     buzzword_present |-> ps.buzz # <<>>,
     mechanism_present |-> ps.mech # <<>>,
     values_present |-> ps.values # <<>>,
     metric_present |-> rs.metric # <<>>,
     timeframe_present |-> rs.timeframe # <<>>,
     baseline_present |-> rs.baseline # <<>>,
     scope_present |-> rs.scope # <<>>,
     passive_present |-> rs.passive # <<>>]

\* The ten `if` statements of lines 113-151, in their order.
Fired(P, features, ps, rs, s_l, snt) ==
    << Rule(outcome_without_metric(features), P,
            "outcome_without_metric",
            "Outcome claim without metric", ps.outcome),
       Rule(speed_without_timeframe(features), P,
            "speed_without_timeframe",
            "Speed claim without timeframe", ps.speed),
       Rule(outcome_without_baseline(features), P,
            "outcome_without_baseline",
            "Outcome claim without baseline", ps.outcome),
       Rule(outcome_without_scope(features), P,
            "outcome_without_scope",
            "Outcome claim without scope", ps.outcome),
       Rule(proof_implied_no_evidence(features), P,
            "proof_implied_no_evidence",
            "Proof implied without evidence structure", ps.proof),
       Rule(buzzword_no_mechanism(features), P,
            "buzzword_no_mechanism",
            "Buzzword used as mechanism substitute", ps.buzz),
       Rule(outcome_without_mechanism(features), P,
            "outcome_without_mechanism",
            "Outcome claim without concrete mechanism", ps.outcome),
       Rule(process_no_levers(s_l, features), P,
            "process_no_levers",
            "Process language without levers",
            <<[start |-> 0, end |-> Len(snt), text |-> snt]>>),
       Rule(passive_voice(features), P,
            "passive_voice",
            "Passive voice / agency evasion", rs.passive),
       Rule(superlative_unbounded(features), P,
            "superlative_unbounded",
            "Superlative without constraint", ps.super) >>

\* The bonus of lines 154-159.
Bonus(B, features) ==
    (IF features.metric_present THEN B.metric_present ELSE 0)
    + (IF features.timeframe_present THEN B.timeframe_present ELSE 0)
    + (IF features.baseline_present THEN B.baseline_present ELSE 0)
    + (IF features.mechanism_present THEN B.mechanism_present ELSE 0)
    + (IF features.scope_present THEN B.scope_present ELSE 0)

\* Lines 161-170: the total and the SentenceAnalysis returned.
SentenceAnalysis(snt, semantic_class, features, flags, penalties, bonus) ==
    [sentence |-> snt,
     semantic_class |-> semantic_class,
     features |-> features,
     flags |-> flags,
     score_breakdown |-> [penalties |-> penalties, bonus |-> bonus],
     total_score |-> Clamp(penalties - bonus)]

\* Lines 100-170, from the feature map on: fired holds what each `if` did.
Scored(w, table, snt, features, fired) ==
    SentenceAnalysis(snt, Classify(table, features), features,
                     Concat([k \in 1..Len(fired) |-> fired[k].flags]),
                     SumSeq([k \in 1..Len(fired) |-> fired[k].penalty]),
                     Bonus(w.bonuses, features))

\* Lines 82-170, from the span lists on.
Extracted(w, table, snt, s_l, ps, rs, features) ==
    Scored(w, table, snt, features,
           Fired(w.penalties, features, ps, rs, s_l, snt))

Matched(w, table, snt, s_l, ps, rs) ==
    Extracted(w, table, snt, s_l, ps, rs, Features(ps, rs))

Lowered(lx, px, w, table, snt, s_l) ==
    Matched(w, table, snt, s_l, PhraseSpans(lx, s_l, snt), RegexSpans(px, snt))

\* Lines 62-170 for an analyzer whose rules are (lx, px, w, table).
analyze_sentence(lx, px, w, table, snt) ==
    Lowered(lx, px, w, table, snt, Lower(snt))

(***************************************************************************)
(* The rules an Analyzer is built from (lines 46-59)                       *)
(***************************************************************************)

PenaltyOrder ==
    << "outcome_without_metric", "speed_without_timeframe",
       "outcome_without_baseline", "outcome_without_scope",
       "proof_implied_no_evidence", "buzzword_no_mechanism",
       "outcome_without_mechanism", "process_no_levers",
       "passive_voice", "superlative_unbounded" >>
PenaltyNames == {PenaltyOrder[k] : k \in 1..Len(PenaltyOrder)}

\* weights.json with every weight a multiple of k: the penalties k, 2k, 4k,
\* ... in the order above, so that a sum of weights tells which were added.
Weights(k) ==
    [penalties |->
        [outcome_without_metric |-> k, speed_without_timeframe |-> 2 * k,
         outcome_without_baseline |-> 4 * k, outcome_without_scope |-> 8 * k,
         proof_implied_no_evidence |-> 16 * k, buzzword_no_mechanism |-> 32 * k,
         outcome_without_mechanism |-> 64 * k, process_no_levers |-> 128 * k,
         passive_voice |-> 256 * k, superlative_unbounded |-> 512 * k],
     bonuses |->
        [metric_present |-> k, timeframe_present |-> 2 * k,
         baseline_present |-> 4 * k, mechanism_present |-> 8 * k,
         scope_present |-> 16 * k]]

\* Small, negative and very large weights.
WeightScales == {1, -1, 1000}

Up == <<"u", "p">>
One == <<"1">>
Zed == <<"z">>

\* A lexicon that holds nothing, or the one phrase "up".
LexChoices == {<<>>, <<Up>>}
\* A pattern that matches "1", or one that matches "z".
RxChoices == {One, Zed}

SentUp1 == <<"U", "p", " ", "1">>
SentUp1Strategy ==
    <<"U", "p", " ", "1", " ", "s", "t", "r", "a", "t", "e", "g", "y">>

ValuesRule == [requires |-> <<"values_present">>,
               forbids |-> <<"metric_present", "mechanism_present">>]
ScDefault == "values_non_operational" :> ValuesRule

\* Every combination of the six lexicons and five patterns the penalty rules
\* read, on a sentence with and without a process word.
InitScore ==
    /\ s \in {<<>>, SentUp1, SentUp1Strategy}
    /\ lex \in [outcome_verbs : LexChoices, speed_words : LexChoices,
                hedges : {<<>>}, superlatives : LexChoices,
                proof_theater : LexChoices, buzzwords : LexChoices,
                mechanism_tokens : LexChoices, values_language : {<<Up>>}]
    /\ rx \in [number_unit : RxChoices, timeframe : RxChoices,
               baseline : RxChoices, scope : RxChoices, passive : RxChoices]
    /\ wt \in {Weights(k) : k \in WeightScales}
    /\ sc = ScDefault

MaxRuleLen == 2
ClassFeatureNames ==
    {"values_present", "metric_present", "mechanism_present", "no_such_feature"}
ClassRules ==
    [requires : SeqsUpTo(ClassFeatureNames, MaxRuleLen),
     forbids : SeqsUpTo(ClassFeatureNames, MaxRuleLen)]
\* semantic_classes.json: empty, holding another class only, or holding the
\* values_non_operational rule (alone or beside another class).
ScTables ==
    {<<>>, "pricing_talk" :> ValuesRule}
    \union {"values_non_operational" :> r : r \in ClassRules}
    \union {("pricing_talk" :> ValuesRule) @@ ("values_non_operational" :> r) :
               r \in {ValuesRule}}

\* Every class rule over four feature names, on every combination of the
\* three features they name.
InitClass ==
    /\ s = SentUp1
    /\ lex \in [outcome_verbs : {<<Up>>}, speed_words : {<<>>},
                hedges : {<<Up>>}, superlatives : {<<>>},
                proof_theater : {<<>>}, buzzwords : {<<>>},
                mechanism_tokens : LexChoices, values_language : LexChoices]
    /\ rx \in [number_unit : RxChoices, timeframe : {Zed},
               baseline : {Zed}, scope : {Zed}, passive : {Zed}]
    /\ wt = Weights(1)
    /\ sc \in ScTables

MaxSentLen == 3
SpanAlphabet == {"u", "P", DotI}
SentDotIStrategy ==
    <<DotI, " ", "s", "t", "r", "a", "t", "e", "g", "y">>

\* Sentences with upper case and with U+0130 in them, phrases in either case
\* and of one or two characters, a pattern that matches the empty string.
InitSpan ==
    /\ s \in SeqsUpTo(SpanAlphabet, MaxSentLen) \union {SentDotIStrategy}
    /\ lex \in [outcome_verbs : {<<Up>>, <<<<"P">>, <<"U">>>>},
                speed_words : {<<>>}, hedges : {<<>>},
                superlatives : {<<<<"u">>>>}, proof_theater : {<<>>},
                buzzwords : {<<>>}, mechanism_tokens : {<<>>},
                values_language : {<<>>}]
    /\ rx \in [number_unit : {Zed}, timeframe : {Zed}, baseline : {Zed},
               scope : {Zed}, passive : {<<>>, <<"p">>, <<"U", "P">>, Zed}]
    /\ wt = Weights(1)
    /\ sc = ScDefault

InitSent ==
    /\ pc = "call"
    /\ InitScore \/ InitClass \/ InitSpan
    /\ result = None
    /\ IdleScan /\ IdlePair /\ IdleText

\* analyzer.analyze_sentence(s) runs and returns.
AnalyzeSentence ==
    /\ pc = "call"
    /\ result' = analyze_sentence(lex, rx, wt, sc, s)
    /\ pc' = "return"
    /\ UNCHANGED <<s, lex, rx, wt, sc, scanVars, pairVars, textVars>>

NextSent == AnalyzeSentence

SentSpec == InitSent /\ [][NextSent]_vars

(***************************************************************************)
(* Properties of analyze_sentence                                          *)
(***************************************************************************)

Returned == pc = "return"

FlagTypes(r) == [k \in 1..Len(r.flags) |-> r.flags[k].type]
FlagTypeSet(r) == {r.flags[k].type : k \in 1..Len(r.flags)}
Raw(r) == r.score_breakdown.penalties - r.score_breakdown.bonus

\* C1: the total score is penalties - bonus brought into 0..100, for the
\* penalties and bonus reported beside it; so it lies in 0..100.
C1_TotalIsClampedDifference ==
    Returned =>
        /\ result.total_score =
              (IF Raw(result) < 0 THEN 0
               ELSE IF Raw(result) > 100 THEN 100 ELSE Raw(result))
        /\ 0 <= result.total_score
        /\ result.total_score <= 100

\* Negative weights took penalties - bonus below zero and the total is 0.
C1_Witness ==
    /\ Returned
    /\ Raw(result) < 0
    /\ result.total_score = 0
    /\ wt.penalties.outcome_without_metric < 0

\* The trigger of each penalty rule, as the rule list states it.
Triggered(name, snt, f) ==
    CASE name = "outcome_without_metric" -> f.outcome_present /\ ~f.metric_present
      [] name = "speed_without_timeframe" -> f.speed_present /\ ~f.timeframe_present
      [] name = "outcome_without_baseline" -> f.outcome_present /\ ~f.baseline_present
      [] name = "outcome_without_scope" -> f.outcome_present /\ ~f.scope_present
      [] name = "proof_implied_no_evidence" -> f.proof_implied
      [] name = "buzzword_no_mechanism" -> f.buzzword_present /\ ~f.mechanism_present
      [] name = "outcome_without_mechanism" -> f.outcome_present /\ ~f.mechanism_present
      [] name = "process_no_levers" ->
            ProcessSearch(Lower(snt)) /\ ~f.mechanism_present
      [] name = "passive_voice" -> f.passive_present
      [] name = "superlative_unbounded" -> f.superlative_present /\ ~f.metric_present

TriggeredHere(name) == Triggered(name, s, result.features)

\* C9: the flags are the penalty rules whose trigger holds, in the fixed
\* order, one flag per rule however many matches it has, none for a bonus,
\* and penalties is the sum of the weights of the flags' types.
C9_FlagsAreTriggeredRulesInOrder ==
    Returned =>
        /\ FlagTypes(result) = SelectSeq(PenaltyOrder, TriggeredHere)
        /\ \A i, j \in 1..Len(result.flags) :
              i # j => result.flags[i].type # result.flags[j].type
        /\ FlagTypeSet(result) \subseteq PenaltyNames
        /\ result.score_breakdown.penalties =
              SumSeq([k \in 1..Len(result.flags) |->
                         wt.penalties[result.flags[k].type]])

\* A rule with two matches and a bonus feature both happened.
C9_Witness ==
    /\ Returned
    /\ \E k \in 1..Len(result.flags) : Len(result.flags[k].spans) >= 2
    /\ Len(result.flags) >= 2
    /\ result.features.metric_present \/ result.features.scope_present
       \/ Len(result.flags) >= 5

OutcomeOnly(f) ==
    /\ f.outcome_present
    /\ ~f.metric_present /\ ~f.baseline_present
    /\ ~f.scope_present /\ ~f.mechanism_present

FourOutcomeFlags ==
    << "outcome_without_metric", "outcome_without_baseline",
       "outcome_without_scope", "outcome_without_mechanism" >>
OtherRules ==
    { "speed_without_timeframe", "proof_implied_no_evidence",
      "buzzword_no_mechanism", "process_no_levers", "passive_voice",
      "superlative_unbounded" }

IsOutcomeFlag(name) == \E k \in 1..Len(FourOutcomeFlags) : FourOutcomeFlags[k] = name

\* C4 as stated: an outcome with no metric, baseline, scope or mechanism is
\* flagged with exactly the four outcome flags and with no other flag.
C4_ExactlyFourFlags ==
    (Returned /\ OutcomeOnly(result.features)) =>
        FlagTypes(result) = FourOutcomeFlags

\* C4 as amended: the four outcome flags are all there, in that order; any
\* other flag is one of the six other rules, present exactly when its own
\* trigger holds; with none of those triggered the list is the four flags.
C4_FourOutcomeFlagsAmongOthers ==
    (Returned /\ OutcomeOnly(result.features)) =>
        /\ SelectSeq(FlagTypes(result), IsOutcomeFlag) = FourOutcomeFlags
        /\ FlagTypeSet(result) \subseteq PenaltyNames
        /\ \A name \in OtherRules :
              name \in FlagTypeSet(result) <=> TriggeredHere(name)
        /\ (\A name \in OtherRules : ~TriggeredHere(name)) =>
              FlagTypes(result) = FourOutcomeFlags

\* An outcome-only sentence that is also passive got a fifth flag.
C4_Witness ==
    /\ Returned
    /\ OutcomeOnly(result.features)
    /\ result.features.passive_present
    /\ Len(result.flags) > 4

\* C6: every span of every flag lies inside the sentence and its text is the
\* sentence's characters from start to end.
C6_SpansLieInSentence ==
    Returned =>
        \A k \in 1..Len(result.flags) :
            \A m \in 1..Len(result.flags[k].spans) :
                LET sp == result.flags[k].spans[m]
                IN  /\ 0 <= sp.start
                    /\ sp.start <= sp.end
                    /\ sp.end <= Len(s)
                    /\ sp.text = Slice(s, sp.start, sp.end)

TrueFeatures(r) == {k \in DOMAIN r.features : r.features[k]}
HasValuesRule == "values_non_operational" \in DOMAIN sc
SeqRange(q) == {q[k] : k \in 1..Len(q)}

\* C7: the class is values_non_operational exactly when the table holds that
\* rule, every required feature is true and no forbidden feature is true;
\* otherwise it is operational_or_mixed.
C7_ClassIffRuleMatches ==
    Returned =>
        LET matches ==
                /\ HasValuesRule
                /\ SeqRange(sc["values_non_operational"].requires)
                       \subseteq TrueFeatures(result)
                /\ SeqRange(sc["values_non_operational"].forbids)
                       \cap TrueFeatures(result) = {}
        IN  /\ result.semantic_class \in
                  {"values_non_operational", "operational_or_mixed"}
            /\ result.semantic_class = "values_non_operational" <=> matches

\* A rule with a requirement and a prohibition matched.
C7_Witness ==
    /\ Returned
    /\ HasValuesRule
    /\ sc["values_non_operational"].requires # <<>>
    /\ sc["values_non_operational"].forbids # <<>>
    /\ result.semantic_class = "values_non_operational"

(***************************************************************************)
(* Two analyzers whose rules differ in one penalty weight                  *)
(***************************************************************************)

WeightDeltas == {-7, 200}

InitPair ==
    /\ pc = "call"
    /\ s = SentUp1Strategy
    /\ lex \in [outcome_verbs : LexChoices, speed_words : LexChoices,
                hedges : {<<>>}, superlatives : LexChoices,
                proof_theater : LexChoices, buzzwords : LexChoices,
                mechanism_tokens : LexChoices, values_language : {<<Up>>}]
    /\ rx \in [number_unit : RxChoices, timeframe : RxChoices,
               baseline : RxChoices, scope : RxChoices, passive : RxChoices]
    /\ wt = Weights(1)
    /\ \E r \in PenaltyNames : \E d \in WeightDeltas :
          wt2 = [wt EXCEPT !.penalties[r] = @ + d]
    /\ sc = ScDefault
    /\ result = None /\ result2 = None
    /\ IdleScan /\ IdleText

\* The same sentence goes through both analyzers.
AnalyzePair ==
    /\ pc = "call"
    /\ result' = analyze_sentence(lex, rx, wt, sc, s)
    /\ result2' = analyze_sentence(lex, rx, wt2, sc, s)
    /\ pc' = "return"
    /\ UNCHANGED <<s, lex, rx, wt, sc, wt2, scanVars, textVars>>

NextPair == AnalyzePair

PairSpec == InitPair /\ [][NextPair]_vars

ChangedRule == CHOOSE r \in PenaltyNames : wt2.penalties[r] # wt.penalties[r]
Delta == wt2.penalties[ChangedRule] - wt.penalties[ChangedRule]

\* C3 as stated: a sentence that triggers the changed rule has total scores
\* that differ by exactly the weight delta; one that does not has equal
\* analyses.
C3_TotalsDifferByDelta ==
    Returned =>
        IF TriggeredHere(ChangedRule)
        THEN result2.total_score - result.total_score = Delta
        ELSE result2 = result

\* C3 as amended: with the rule triggered, the reported penalties differ by
\* exactly the delta, the bonus is equal, and the total scores differ by
\* exactly the delta whenever neither penalties - bonus is clamped; without
\* it, the analyses are equal.
C3_PenaltiesDifferByDelta ==
    Returned =>
        IF TriggeredHere(ChangedRule)
        THEN /\ result2.score_breakdown.penalties
                    - result.score_breakdown.penalties = Delta
             /\ result2.score_breakdown.bonus = result.score_breakdown.bonus
             /\ result2.flags = result.flags
             /\ (Raw(result) \in 0..100 /\ Raw(result2) \in 0..100) =>
                    result2.total_score - result.total_score = Delta
        ELSE result2 = result

\* The rule was triggered and the clamp kept the totals closer than the delta.
C3_Witness ==
    /\ Returned
    /\ TriggeredHere(ChangedRule)
    /\ result2.score_breakdown.penalties
           - result.score_breakdown.penalties = Delta
    /\ result2.total_score - result.total_score # Delta
    /\ result.total_score # result2.total_score

(***************************************************************************)
(* Properties of find_phrase_spans                                         *)
(***************************************************************************)

\* C5: the scan returns, whatever the phrases and the sentence.
C5_ScanReturns == <>(pc = "return")

Occurrences(str, sub) == {i \in 0..Len(str) : OccursAt(str, sub, i)}

\* The occurrences a left-to-right scan reports: no two of them overlap, and
\* every occurrence left out overlaps a reported one that starts before it.
Reported(str, sub) ==
    CHOOSE G \in SUBSET Occurrences(str, sub) :
        /\ \A g, h \in G : g < h => g + Len(sub) <= h
        /\ \A o \in Occurrences(str, sub) \ G :
              \E g \in G : g < o /\ o < g + Len(sub)

\* The offsets of a set of starts, in increasing order.
RECURSIVE Ascending(_, _)
Ascending(G, n) ==
    IF G = {} THEN <<>>
    ELSE LET g == CHOOSE x \in G : \A y \in G : x <= y
         IN  <<<<g, g + n>>>> \o Ascending(G \ {g}, n)

ExpectedOffsets ==
    Concat([k \in 1..Len(phrases) |->
               Ascending(Reported(text_l, Lower(phrases[k])),
                         Len(Lower(phrases[k])))])

\* C10: the result lists, phrase after phrase in list order, the occurrences
\* of the phrase that a scan resuming at the end of each match reports, in
\* increasing order.
C10_SpansAreScanOrder ==
    Returned =>
        [k \in 1..Len(spans) |-> <<spans[k].start, spans[k].end>>]
            = ExpectedOffsets

\* Two adjacent matches were both reported, an overlapping occurrence was
\* left out, and a later phrase's span starts before an earlier phrase's.
C10_Witness ==
    /\ Returned
    /\ \E k \in 1..(Len(spans) - 1) :
          spans[k].end = spans[k + 1].start
    /\ \E k \in 1..Len(phrases) :
          Cardinality(Reported(text_l, Lower(phrases[k])))
              < Cardinality(Occurrences(text_l, Lower(phrases[k])))
    /\ \E k \in 1..(Len(spans) - 1) :
          spans[k].start > spans[k + 1].start

\* The statement-by-statement scan returns what find_phrase_spans is.
ScanAgrees ==
    Returned => spans = find_phrase_spans(text_l, phrases, original)

(***************************************************************************)
(* split_sentences and Analyzer.analyze_text                               *)
(***************************************************************************)

\* re.sub(r"\s+", " ", str): every run of whitespace becomes one space.
RECURSIVE CollapseSpaces(_)
CollapseSpaces(str) ==
    IF str = <<>> THEN <<>>
    ELSE IF IsSpace(Head(str))
         THEN <<" ">> \o CollapseSpaces(LStrip(str))
         ELSE <<Head(str)>> \o CollapseSpaces(Tail(str))

IsTerminator(c) == c \in {".", "!", "?"}

\* A pattern that splits at every run of whitespace.
BoundaryAtAnySpace(str, i) == IsSpace(str[i])

\* (?<=[.!?])\s+ matches at the character str[i] (counted from 1): it is
\* whitespace and the character before it is a terminator (line 13).
BoundaryAt(str, i) == IsSpace(str[i]) /\ i > 1 /\ IsTerminator(str[i - 1])

\* The index after the run of whitespace that starts at i.
RECURSIVE AfterRun(_, _)
AfterRun(str, i) ==
    IF i <= Len(str) /\ IsSpace(str[i]) THEN AfterRun(str, i + 1) ELSE i

\* re.split(r"(?<=[.!?])\s+", str) from index i on, cur being the piece so far.
RECURSIVE ReSplit(_, _, _)
ReSplit(str, i, cur) ==
    IF i > Len(str) THEN <<cur>>
    ELSE IF BoundaryAt(str, i)
         THEN <<cur>> \o ReSplit(str, AfterRun(str, i), <<>>)
         ELSE ReSplit(str, i + 1, Append(cur, str[i]))

NotBlank(piece) == Strip(piece) # <<>>

\* Lines 10-14.
split_sentences(txt) ==
    LET norm == CollapseSpaces(Strip(txt))
    IN  IF norm = <<>> THEN <<>>
        ELSE LET pieces == SelectSeq(ReSplit(norm, 1, <<>>), NotBlank)
             IN  [k \in 1..Len(pieces) |-> Strip(pieces[k])]

\* The exponent of the float m / 20 (m >= 1): the e with 2^e <= m / 20 < 2^(e+1).
RECURSIVE ExponentUp(_, _)
ExponentUp(m, e) == IF 40 * (2 ^ e) <= m THEN ExponentUp(m, e + 1) ELSE e
RECURSIVE ExponentDown(_, _)
ExponentDown(m, j) == IF m * (2 ^ j) < 20 THEN ExponentDown(m, j + 1) ELSE 0 - j
Exponent(m) == IF m >= 20 THEN ExponentUp(m, 0) ELSE ExponentDown(m, 1)

\* 2^k modulo 5, for k >= 0.
Pow2Mod5(k) == <<1, 2, 4, 3>>[(k % 4) + 1]

\* round(num / den, 1) in tenths, for num >= 0 and den > 0.  num / den is the
\* float nearest the quotient and round() rounds that float's exact value.
\* A quotient halfway between two tenths is m / 20 with m odd.  When 5
\* divides m it is a binary fraction, the float is exact and round() takes
\* the even tenth.  Otherwise the float's 53-bit significand is
\* m * 2^(50 - e) / 5 rounded to an integer, so the float is below the
\* quotient when the remainder of that division is 1 or 2 and above when it
\* is 3 or 4, and round() follows the float.
Round1(num, den) ==
    LET q == (10 * num) \div den
        r == (10 * num) % den
        m == 2 * q + 1
        rho == (m * Pow2Mod5(50 - Exponent(m))) % 5
    IN  IF 2 * r < den THEN q
        ELSE IF 2 * r > den THEN q + 1
        ELSE IF m % 5 = 0 THEN (IF q % 2 = 0 THEN q ELSE q + 1)
        ELSE IF rho <= 2 THEN q ELSE q + 1

RECURSIVE MaxSeq(_)
MaxSeq(xs) ==
    IF Len(xs) = 1 THEN xs[1] ELSE Max(Head(xs), MaxSeq(Tail(xs)))

\* label(x) of lines 183-187 for x = num / den.
label(num, den) ==
    IF num <= 25 * den THEN "Solid / operational"
    ELSE IF num <= 50 * den THEN "Soft marketing"
    ELSE IF num <= 75 * den THEN "High BS risk"
    ELSE "Persuasion fog"

IsHigh(x) == x >= 51

\* Lines 178-198, for the scores of a document that has sentences.
\* score_mean and pct_sentences_high_bs are in tenths.
Overall(scores) ==
    [score_mean |-> Round1(SumSeq(scores), Len(scores)),
     score_worst_sentence |-> MaxSeq(scores),
     pct_sentences_high_bs |->
        Round1(100 * Len(SelectSeq(scores, IsHigh)), Len(scores)),
     label |-> label(SumSeq(scores), Len(scores)),
     n_sentences |-> Len(scores)]

\* Lines 175-198, from the analyses on.
Aggregate(analyses) ==
    IF analyses = <<>>
    THEN [overall |-> [score_mean |-> 0, label |-> "Empty", n_sentences |-> 0],
          sentences |-> <<>>]
    ELSE [overall |->
              Overall([k \in 1..Len(analyses) |-> analyses[k].total_score]),
          sentences |-> analyses]

AnalyzeEach(lx, px, w, table, sents) ==
    Aggregate([k \in 1..Len(sents) |->
                  analyze_sentence(lx, px, w, table, sents[k])])

\* Lines 173-198.
analyze_text(lx, px, w, table, txt) ==
    AnalyzeEach(lx, px, w, table, split_sentences(txt))

MaxTextLen == 5
MaxRepeat == 20
MaxTail == 1

TextAlphabet == {"a", ".", "?", " ", "\n"}

\* Sentences that score 0, 25, 26 and 100 under the rules below.
Kinds ==
    { <<"n", "o", ".">>, <<"A", ".">>, <<"A", " ", "x", "!">>,
      <<"a", " ", "b", ".">> }

\* n copies of a sentence, each followed by a space and a line break.
RECURSIVE Repeat(_, _)
Repeat(snt, n) ==
    IF n = 0 THEN <<>> ELSE snt \o <<" ", "\n">> \o Repeat(snt, n - 1)

Documents ==
    {Repeat(x, a) \o Repeat(y, b) :
        x \in Kinds, y \in Kinds, a \in 0..MaxRepeat, b \in 0..MaxTail}

TextLex ==
    [outcome_verbs |-> <<<<"a">>>>, speed_words |-> <<<<"x">>>>,
     hedges |-> <<>>, superlatives |-> <<<<"b">>>>, proof_theater |-> <<>>,
     buzzwords |-> <<>>, mechanism_tokens |-> <<>>, values_language |-> <<>>]
TextRx ==
    [number_unit |-> One, timeframe |-> Zed, baseline |-> Zed,
     scope |-> Zed, passive |-> Zed]
TextWeights ==
    [penalties |->
        [outcome_without_metric |-> 10, speed_without_timeframe |-> 1,
         outcome_without_baseline |-> 5, outcome_without_scope |-> 5,
         proof_implied_no_evidence |-> 20, buzzword_no_mechanism |-> 20,
         outcome_without_mechanism |-> 5, process_no_levers |-> 20,
         passive_voice |-> 20, superlative_unbounded |-> 75],
     bonuses |->
        [metric_present |-> 10, timeframe_present |-> 10,
         baseline_present |-> 10, mechanism_present |-> 10,
         scope_present |-> 10]]

\* Every short text over letters, terminators and whitespace, and documents
\* of up to MaxRepeat + MaxTail sentences of two kinds.
InitText ==
    /\ pc = "call"
    /\ text \in SeqsUpTo(TextAlphabet, MaxTextLen) \union Documents
    /\ lex = TextLex /\ rx = TextRx /\ wt = TextWeights /\ sc = ScDefault
    /\ s = <<>> /\ result = None
    /\ parts = None /\ out = None
    /\ IdleScan /\ IdlePair

\* split_sentences(text) runs and returns.
SplitSentences ==
    /\ pc = "call"
    /\ parts' = split_sentences(text)
    /\ pc' = "split_sentences:return"
    /\ UNCHANGED <<text, out, scanVars, sentVars, pairVars>>

\* analyzer.analyze_text(text) runs and returns.
AnalyzeText ==
    /\ pc = "call"
    /\ out' = analyze_text(lex, rx, wt, sc, text)
    /\ pc' = "analyze_text:return"
    /\ UNCHANGED <<text, parts, scanVars, sentVars, pairVars>>

NextText == SplitSentences \/ AnalyzeText

TextSpec == InitText /\ [][NextText]_vars

(***************************************************************************)
(* Properties of split_sentences and analyze_text                          *)
(***************************************************************************)

\* The four-way threshold on a mean given in tenths.
LabelOfTenths(m) ==
    IF m <= 250 THEN "Solid / operational"
    ELSE IF m <= 500 THEN "Soft marketing"
    ELSE IF m <= 750 THEN "High BS risk"
    ELSE "Persuasion fog"

\* C2: the label of a non-empty document is the four-way threshold of the
\* score_mean reported with it.
C2_LabelIsThresholdOfScoreMean ==
    (pc = "analyze_text:return" /\ out.overall.n_sentences > 0) =>
        out.overall.label = LabelOfTenths(out.overall.score_mean)

\* The characters of text that whitespace collapsing and trimming keep: the
\* ones that are not whitespace, and the first of a run of whitespace that
\* has such a character before it and after it.
Kept(i) ==
    \/ ~IsSpace(text[i])
    \/ /\ i > 1 /\ ~IsSpace(text[i - 1])
       /\ \E j \in (i + 1)..Len(text) : ~IsSpace(text[j])

NormalizedText ==
    LET kept == SelectSeq([i \in 1..Len(text) |-> i], Kept)
    IN  [k \in 1..Len(kept) |->
            IF IsSpace(text[kept[k]]) THEN " " ELSE text[kept[k]]]

RECURSIVE JoinWithSpaces(_)
JoinWithSpaces(ps) ==
    IF ps = <<>> THEN <<>>
    ELSE IF Len(ps) = 1 THEN ps[1]
    ELSE ps[1] \o <<" ">> \o JoinWithSpaces(Tail(ps))

\* C8: the fragments are not empty and carry no outer whitespace; joined by
\* single spaces they are the whitespace-normalized text; all but the last
\* end in a terminator; none holds a terminator followed by a space; and
\* there is no fragment exactly when the text is empty or all whitespace.
C8_SplitIsBoundarySplit ==
    pc = "split_sentences:return" =>
        /\ \A k \in 1..Len(parts) :
              /\ parts[k] # <<>>
              /\ ~IsSpace(parts[k][1])
              /\ ~IsSpace(parts[k][Len(parts[k])])
              /\ \A i \in 1..(Len(parts[k]) - 1) :
                    ~(IsTerminator(parts[k][i]) /\ IsSpace(parts[k][i + 1]))
        /\ JoinWithSpaces(parts) = NormalizedText
        /\ \A k \in 1..(Len(parts) - 1) :
              IsTerminator(parts[k][Len(parts[k])])
        /\ parts = <<>> <=> \A i \in 1..Len(text) : IsSpace(text[i])

\* A text with a run of whitespace was split in two, and one of its spaces
\* that follows no terminator stayed inside a fragment.
C8_Witness ==
    /\ pc = "split_sentences:return"
    /\ Len(parts) >= 2
    /\ \E i \in 1..(Len(text) - 1) : IsSpace(text[i]) /\ IsSpace(text[i + 1])
    /\ \E k \in 1..Len(parts) : \E i \in 1..Len(parts[k]) : parts[k][i] = " "

====
